---- MODULE Spec2Model ----
(***************************************************************************)
(* Ladder-network synthesis: the realizability validator and request path  *)
(* of web/app.py (parse_transfer_function), and the continued-fraction     *)
(* expansion performed by the synthesis engine.                            *)
(* Spec follows one call of parse_transfer_function, HandlerSpec one       *)
(* request to the handler of web/app.py from body to response, ApiSpec one *)
(* request to the serverless handler of api/index.py, RenderSpec the       *)
(* renderers of one shunt token, ConcSpec two requests handled in parallel *)
(* by two workers.                                                         *)
(*                                                                         *)
(* Coefficient arrays are sequences of integers in ascending power of s    *)
(* (index 1 holds the coefficient of s^0).  Python indices are 0-based, so *)
(* a Python index i is the TLA+ index i + 1; degree() and lowest_degree()  *)
(* return the Python (0-based) values.                                     *)
(***************************************************************************)
EXTENDS Integers, Sequences, FiniteSets, TLC

\* Longest coefficient array a request may carry.
MaxLen == 4
\* Largest coefficient value; the smallest is always -1.
MaxCoef == 1

\* Most coefficients the two arrays of a request hold together.
MaxTotal == 7

Coefs == (0 - 1)..MaxCoef
Arrays == UNION {[1..n -> Coefs] : n \in 0..MaxLen}

----------------------------------------------------------------------------
(* Integer and rational helpers.  A rational is <<n, d>> with d > 0 and    *)
(* gcd(n, d) = 1, so equal rationals are equal tuples.                     *)

Abs(x) == IF x < 0 THEN 0 - x ELSE x

Sign(x) == IF x > 0 THEN 1 ELSE IF x < 0 THEN 0 - 1 ELSE 0

RECURSIVE GCD(_, _)
GCD(a, b) == IF b = 0 THEN a ELSE GCD(b, a % b)

Rat(n, d) ==
    LET g == GCD(Abs(n), Abs(d))
        sg == IF d < 0 THEN 0 - 1 ELSE 1
    IN  <<(sg * n) \div g, (sg * d) \div g>>

RAdd(x, y) == Rat(x[1] * y[2] + y[1] * x[2], x[2] * y[2])
RSub(x, y) == Rat(x[1] * y[2] - y[1] * x[2], x[2] * y[2])
RMul(x, y) == Rat(x[1] * y[1], x[2] * y[2])
RDiv(x, y) == Rat(x[1] * y[2], x[2] * y[1])
RZero == Rat(0, 1)
ROne == Rat(1, 1)

----------------------------------------------------------------------------
(* parse_transfer_function: input normalisation (app.py 54-72).            *)

\* all(x == 0 for x in arr); true of the empty array, as in Python.
AllZero(arr) == \A i \in 1..Len(arr) : arr[i] = 0

\* trim_trailing_zeros: drop zeros from the high end, never below one entry.
trim_trailing_zeros(arr) ==
    LET keep == {1} \cup {j \in 1..Len(arr) : arr[j] # 0}
        top == CHOOSE j \in keep : \A k \in keep : k <= j
    IN  SubSeq(arr, 1, top)

degree(arr) == Len(arr) - 1

\* lowest_degree: 0-based index of the first non-zero entry; None is -1.
lowest_degree(arr) ==
    LET nz == {j \in 1..Len(arr) : arr[j] # 0}
    IN  IF nz = {} THEN 0 - 1
        ELSE (CHOOSE j \in nz : \A k \in nz : j <= k) - 1

----------------------------------------------------------------------------
(* Failure records.  A record stands for one message appended to the       *)
(* failures list: label is the number printed in parentheses at the head   *)
(* of the message, kind identifies the message text, name is the side the  *)
(* message names ("N(s)", "D(s)", or "N(s),D(s)" for the two cross rules). *)

Failure(label, kind, name) == [label |-> label, kind |-> kind, name |-> name]

\* Mutant of rule1_all_real_positive: rejects zero coefficients too.
rule1_strictly_positive(name, arr) ==
    IF \E i \in 1..Len(arr) : arr[i] <= 0
    THEN <<Failure(1, "real_nonneg", name)>> ELSE <<>>

\* rule1_all_real_positive (app.py 88-100): one message when some
\* coefficient is negative.  Coefficients are integers here, so the complex
\* and the float() failure branches are not taken.
rule1_all_real_positive(name, arr) ==
    IF \E i \in 1..Len(arr) : arr[i] < 0
    THEN <<Failure(1, "real_nonneg", name)>> ELSE <<>>

\* Mutant of rule5_parity_missing_ok: reports every interior gap.
rule5_any_gap(name, arr) ==
    LET hi == Len(arr) - 1
        lo == lowest_degree(arr)
    IN  IF \E k \in lo..hi : arr[k + 1] = 0
        THEN <<Failure(5, "parity_gap", name)>> ELSE <<>>

\* rule5_parity_missing_ok (app.py 102-117).
rule5_parity_missing_ok(name, arr) ==
    IF Len(arr) = 0 THEN <<Failure(5, "no_coeffs", name)>>
    ELSE
    LET hi == Len(arr) - 1
        lo == lowest_degree(arr)
        exps == {i \in 0..(Len(arr) - 1) : arr[i + 1] # 0}
    IN  IF lo = 0 - 1 THEN <<Failure(5, "identically_zero", name)>>
        ELSE IF Cardinality(exps) <= 1 THEN <<>>
        ELSE
        LET missing_interior == \E k \in lo..hi : arr[k + 1] = 0
            first_parity == lo % 2
            parity_same == \A e \in exps : (e % 2) = first_parity
        IN  IF missing_interior /\ ~parity_same
            THEN <<Failure(5, "parity_gap", name)>> ELSE <<>>

----------------------------------------------------------------------------------------------------------------------------------------
(* numpy.roots, as rule234_roots uses it (app.py 122-123).                 *)
(*                                                                         *)
(* numpy.roots strips the zero coefficients at the low end of the          *)
(* polynomial and returns one exact 0.0 root for each; the other roots are *)
(* the eigenvalues of the companion matrix of what is left.  The model     *)
(* returns the exact roots of that polynomial: integer roots by deflation, *)
(* then the roots of the remaining linear, quadratic or cubic factor.      *)
(* rule234_roots reads of a root only the sign of its real part, whether   *)
(* it is real, and whether it equals another root or its conjugate, so a   *)
(* root is the record                                                      *)
(*    re   sign of the real part                                           *)
(*    im   sign of the imaginary part                                      *)
(*    key  a value shared by equal roots and by conjugate roots only.      *)
(* The roots of the small integer polynomials drawn here are separated by  *)
(* far more than the tolerances 1e-8 and 1e-6 of rule234_roots, so its     *)
(* tolerance comparisons are exact comparisons of these records.           *)
(* Polynomials with a factor of degree four or more without integer roots  *)
(* (RootsKnown false) are not drawn as inputs.                             *)

MkRoot(re, im, key) == [re |-> re, im |-> im, key |-> key]

\* The root u + s*sqrt(v), u and v rational, s in {1, -1}.
Surd(u, v, s) ==
    LET un == u[1]
        \* sign of v - u^2
        cmp == Sign(v[1] * u[2] * u[2] - un * un * v[2])
        re == IF v[1] <= 0 THEN Sign(un)
              ELSE IF s = 1 THEN (IF un >= 0 THEN 1 ELSE cmp)
              ELSE (IF un <= 0 THEN 0 - 1 ELSE 0 - cmp)
    IN  MkRoot(re, IF v[1] < 0 THEN s ELSE 0, <<u, v, IF v[1] > 0 THEN s ELSE 0>>)

ZeroRoot == Surd(RZero, RZero, 1)

RECURSIVE Horner(_, _, _)
Horner(q, r, i) == IF i > Len(q) THEN 0 ELSE q[i] + r * Horner(q, r, i + 1)

\* Value of the polynomial q at the integer r.
Eval(q, r) == Horner(q, r, 1)

\* q / (s - r) for an integer root r of q (synthetic division).
Deflate(q, r) ==
    LET n == Len(q) - 1
        b[i \in 1..n] == IF i = n THEN q[n + 1] ELSE q[i + 1] + r * b[i + 1]
    IN  [i \in 1..n |-> b[i]]

\* Non-zero integer roots of q (q[1] # 0): they divide the constant term.
IntRootsOf(q) ==
    {r \in (0 - Abs(q[1]))..Abs(q[1]) : r # 0 /\ Eval(q, r) = 0}

\* Roots of c + b*s + a*s^2, a # 0.
QuadraticRoots(q) ==
    LET c == q[1]
        b == q[2]
        a == q[3]
        disc == b * b - 4 * a * c
        u == Rat(0 - b, 2 * a)
        v == Rat(disc, 4 * a * a)
    IN  <<Surd(u, v, 1), Surd(u, v, 0 - 1)>>

\* Number of sign changes in a sequence of integers, zeros skipped.
SignChanges(cs) ==
    LET nz == SelectSeq(cs, LAMBDA x : x # 0)
    IN  Cardinality({i \in 1..(Len(nz) - 1) : Sign(nz[i]) # Sign(nz[i + 1])})

\* Roots of d + c*s + b*s^2 + a*s^3, a # 0 and d # 0.
\*   Negative discriminant: one real root, of the sign of -d/a (the product
\*   of the roots), and a conjugate pair whose real part has the sign of
\*   a*d - b*c (the cubic at -b/a, the sum of the roots).
\*   Otherwise the roots are real and Descartes' rule counts the positive
\*   ones exactly; a zero discriminant makes two of them (b*b # 3*a*c) or
\*   all three equal.
CubicRoots(q) ==
    LET d == q[1]
        c == q[2]
        b == q[3]
        a == q[4]
        disc == 18 * a * b * c * d - 4 * b * b * b * d + b * b * c * c
                - 4 * a * c * c * c - 27 * a * a * d * d
        pos == SignChanges(<<a, b, c, d>>)
        k1 == <<RZero, RZero, 2>>
        k2 == <<RZero, RZero, 3>>
        k3 == <<RZero, RZero, 4>>
        sgn(i) == IF i <= pos THEN 1 ELSE 0 - 1
    IN  IF disc < 0
        THEN <<MkRoot(0 - Sign(a * d), 0, k1),
               MkRoot(Sign(a * d - b * c), 1, k2),
               MkRoot(Sign(a * d - b * c), 0 - 1, k2)>>
        ELSE IF disc > 0
        THEN <<MkRoot(sgn(1), 0, k1), MkRoot(sgn(2), 0, k2), MkRoot(sgn(3), 0, k3)>>
        ELSE IF b * b = 3 * a * c
        THEN <<MkRoot(sgn(1), 0, k1), MkRoot(sgn(2), 0, k1), MkRoot(sgn(3), 0, k1)>>
        ELSE IF pos = 1
        THEN <<MkRoot(1, 0, k1), MkRoot(0 - 1, 0, k2), MkRoot(0 - 1, 0, k2)>>
        ELSE IF pos = 2
        THEN <<MkRoot(1, 0, k1), MkRoot(1, 0, k1), MkRoot(0 - 1, 0, k2)>>
        ELSE <<MkRoot(sgn(1), 0, k1), MkRoot(sgn(2), 0, k1), MkRoot(sgn(3), 0, k2)>>

\* The least non-zero integer root of q, 0 when it has none (q[1] # 0).
LeastIntRoot(q) ==
    LET rs == IntRootsOf(q)
    IN  IF rs = {} THEN 0 ELSE CHOOSE x \in rs : \A y \in rs : x <= y

\* Roots of q, q[1] # 0 and q[Len(q)] # 0.
RECURSIVE NonzeroRoots(_)
NonzeroRoots(q) ==
    IF Len(q) <= 1 THEN <<>>
    ELSE IF Len(q) = 2 THEN <<Surd(Rat(0 - q[1], q[2]), RZero, 1)>>
    ELSE LET r == LeastIntRoot(q)
         IN  IF r # 0
             THEN <<Surd(Rat(r, 1), RZero, 1)>> \o NonzeroRoots(Deflate(q, r))
             ELSE IF Len(q) = 3 THEN QuadraticRoots(q)
             ELSE IF Len(q) = 4 THEN CubicRoots(q)
             ELSE <<>>

RECURSIVE NonzeroRootsKnown(_)
NonzeroRootsKnown(q) ==
    IF Len(q) <= 4 THEN TRUE
    ELSE LET r == LeastIntRoot(q)
         IN  IF r # 0 THEN NonzeroRootsKnown(Deflate(q, r)) ELSE FALSE

\* np.roots(list(reversed(arr))) for a trimmed, non-zero arr.
np_roots(arr) ==
    LET k == lowest_degree(arr)
        q == SubSeq(arr, k + 1, Len(arr))
    IN  NonzeroRoots(q) \o [i \in 1..k |-> ZeroRoot]

RootsKnown(arr) ==
    \/ Len(arr) = 0
    \/ AllZero(arr)
    \/ LET t == trim_trailing_zeros(arr)
       IN  NonzeroRootsKnown(SubSeq(t, lowest_degree(t) + 1, Len(t)))

\* The arrays drawn as inputs.
KnownArrays == {a \in Arrays : RootsKnown(a)}

\* Sign of np.real(z).
ReSign(z) == z.re

\* abs(np.imag(z)) > tol
IsComplex(z) == z.im # 0

\* abs(np.real(z)) <= tol
OnImagAxis(z) == z.re = 0

\* np.conj(z)
Conj(z) == [z EXCEPT !.im = 0 - z.im]

\* The conjugate-pairing loop (app.py 129-144); TRUE iff it appends.
RECURSIVE conj_loop(_, _, _)
conj_loop(cr, used, i) ==
    IF i > Len(cr) THEN FALSE
    ELSE IF used[i] THEN conj_loop(cr, used, i + 1)
    ELSE LET J == {j \in (i + 1)..Len(cr) : ~used[j] /\ cr[j] = Conj(cr[i])}
         IN  IF J = {} THEN TRUE
             ELSE LET j == CHOOSE x \in J : \A y \in J : x <= y
                  IN  conj_loop(cr, [used EXCEPT ![i] = TRUE, ![j] = TRUE], i + 1)

\* Mutant of mult_loop: reports a root only from multiplicity three on.
RECURSIVE mult_loop_three(_, _, _)
mult_loop_three(ax, taken, i) ==
    IF i > Len(ax) THEN FALSE
    ELSE IF taken[i] THEN mult_loop_three(ax, taken, i + 1)
    ELSE LET J == {j \in (i + 1)..Len(ax) : ~taken[j] /\ ax[j] = ax[i]}
             mult == 1 + Cardinality(J)
         IN  IF mult > 2 THEN TRUE
             ELSE mult_loop_three(ax, [k \in 1..Len(ax) |-> taken[k] \/ k \in J], i + 1)

\* The multiplicity loop (app.py 146-160); TRUE iff it appends.
RECURSIVE mult_loop(_, _, _)
mult_loop(ax, taken, i) ==
    IF i > Len(ax) THEN FALSE
    ELSE IF taken[i] THEN mult_loop(ax, taken, i + 1)
    ELSE LET J == {j \in (i + 1)..Len(ax) : ~taken[j] /\ ax[j] = ax[i]}
             mult == 1 + Cardinality(J)
         IN  IF mult > 1 THEN TRUE
             ELSE mult_loop(ax, [k \in 1..Len(ax) |-> taken[k] \/ k \in J], i + 1)

\* Mutant of right_half_plane: np.all in place of np.any.
right_half_plane_all(r) == \A i \in 1..Len(r) : ReSign(r[i]) > 0

\* np.any(np.real(r) > tol) (app.py 126)
right_half_plane(r) == \E i \in 1..Len(r) : ReSign(r[i]) > 0

\* rule234_roots (app.py 119-160).  The labels are the ones the messages
\* print: "(3)" right half-plane, "(2)" conjugate pairs, "(4)" simplicity.
rule234_roots(name, arr) ==
    IF Len(arr) = 0 \/ AllZero(arr)
    THEN <<Failure(234, "zero_or_invalid", name)>>
    ELSE
    LET r == np_roots(arr)
        complex_roots == SelectSeq(r, IsComplex)
        imag_axis == SelectSeq(r, OnImagAxis)
    IN  (IF right_half_plane(r)
         THEN <<Failure(3, "right_half_plane", name)>> ELSE <<>>)
     \o (IF conj_loop(complex_roots, [k \in 1..Len(complex_roots) |-> FALSE], 1)
         THEN <<Failure(2, "conjugate_pairs", name)>> ELSE <<>>)
     \o (IF mult_loop(imag_axis, [k \in 1..Len(imag_axis) |-> FALSE], 1)
         THEN <<Failure(4, "multiple_imag_axis", name)>> ELSE <<>>)

----------------------------------------------------------------------------
(* parse_transfer_function: the rule battery (app.py 162-184).             *)

\* Mutant of rule6_degree: the legacy guard's one-sided test (app.py 187).
rule6_legacy_guard(n, d) ==
    IF Len(n) > Len(d) + 1
    THEN <<Failure(6, "degree_diff", "N(s),D(s)")>> ELSE <<>>

\* app.py 166-169
rule6_degree(n, d) ==
    IF Abs(degree(n) - degree(d)) \notin {0, 1}
    THEN <<Failure(6, "degree_diff", "N(s),D(s)")>> ELSE <<>>

\* Mutant of rule7_lowest_degree: allows no difference at all.
rule7_any_difference(n, d) ==
    IF lowest_degree(n) # lowest_degree(d)
    THEN <<Failure(7, "lowest_degree", "N(s),D(s)")>> ELSE <<>>

\* Mutant of rule7_lowest_degree: compares the signed difference.
rule7_signed(n, d) ==
    IF lowest_degree(n) - lowest_degree(d) > 1
    THEN <<Failure(7, "lowest_degree", "N(s),D(s)")>> ELSE <<>>

\* app.py 171-174
rule7_lowest_degree(n, d) ==
    LET ld_n == lowest_degree(n)
        ld_d == lowest_degree(d)
    IN  IF ld_n = 0 - 1 \/ ld_d = 0 - 1 \/ Abs(ld_n - ld_d) > 1
        THEN <<Failure(7, "lowest_degree", "N(s),D(s)")>> ELSE <<>>

\* Mutant of apply_rules: stops at the first rule that fails.
apply_rules_first_only(n, d) ==
    LET all == rule1_all_real_positive("N(s)", n)
            \o rule1_all_real_positive("D(s)", d)
            \o rule6_degree(n, d)
            \o rule7_lowest_degree(n, d)
            \o rule5_parity_missing_ok("N(s)", n)
            \o rule5_parity_missing_ok("D(s)", d)
            \o rule234_roots("N(s)", n)
            \o rule234_roots("D(s)", d)
    IN  IF all = <<>> THEN <<>> ELSE <<Head(all)>>

\* "Apply rules" (app.py 162-180): the failures list, in the order in which
\* the rules append to it.  n and d are the trimmed arrays.
apply_rules(n, d) ==
       rule1_all_real_positive("N(s)", n)
    \o rule1_all_real_positive("D(s)", d)
    \o rule6_degree(n, d)
    \o rule7_lowest_degree(n, d)
    \o rule5_parity_missing_ok("N(s)", n)
    \o rule5_parity_missing_ok("D(s)", d)
    \o rule234_roots("N(s)", n)
    \o rule234_roots("D(s)", d)

----------------------------------------------------------------------------
(* Results of parse_transfer_function: the pair (result, error).           *)
(* kind "ok" carries the Z and Y token lists, kind "error" the message;    *)
(* the "Not realizable circuit" message carries the failures it itemizes.  *)

NoRet == [kind |-> "none", Z |-> <<>>, Y |-> <<>>, msg |-> "", details |-> <<>>]

Ok(z, y) == [kind |-> "ok", Z |-> z, Y |-> y, msg |-> "", details |-> <<>>]

Err(msg, details) ==
    [kind |-> "error", Z |-> <<>>, Y |-> <<>>, msg |-> msg, details |-> details]

\* A token of the Z or Y list.  form is the shape of the printed string
\* ("const" k, "1/s", "k/s", "s", "s/k", or "poly" for an engine quotient) and
\* val the rational coefficients it prints, in ascending power.
Token(form, val) == [form |-> form, val |-> val]

\* Mutant of precheck: the denominator is not tested for zero.
precheck_numerator_only(n, d) ==
    IF Len(n) = 0 \/ Len(d) = 0 THEN "Empty coefficient arrays"
    ELSE IF AllZero(n) THEN "Invalid network: Numerator cannot be zero"
    ELSE ""

\* app.py 54-62: the error returned before trimming, "" when there is none.
precheck(n, d) ==
    IF Len(n) = 0 \/ Len(d) = 0 THEN "Empty coefficient arrays"
    ELSE IF AllZero(n) THEN "Invalid network: Numerator cannot be zero"
    ELSE IF AllZero(d) THEN "Invalid network: Denominator cannot be zero"
    ELSE ""

\* The shortcut without its constant case.
shortcut_no_constant(n, d) ==
    LET deg_n == Len(n) - 1
        deg_d == Len(d) - 1
        a0 == n[1]
        a1 == IF Len(n) > 1 THEN n[2] ELSE 0
        b0 == d[1]
        b1 == IF Len(d) > 1 THEN d[2] ELSE 0
    IN  IF AllZero(d) \/ ~(deg_n <= 1 /\ deg_d <= 1) THEN NoRet
        ELSE IF a1 = 0 /\ b0 = 0 /\ Abs(b1) > 0
        THEN (IF a0 = b1 THEN Ok(<<Token("1/s", <<ROne>>)>>, <<>>)
              ELSE Ok(<<Token("k/s", <<Rat(a0, b1)>>)>>, <<>>))
        ELSE IF b1 = 0 /\ a0 = 0 /\ Abs(b0) > 0 /\ Abs(a1) > 0
        THEN (IF b0 = a1 THEN Ok(<<Token("s", <<ROne>>)>>, <<>>)
              ELSE Ok(<<Token("s/k", <<Rat(b0, a1)>>)>>, <<>>))
        ELSE NoRet

\* The shortcut with the differentiator's token put in the Y list.
shortcut_inductor_in_y(n, d) ==
    LET deg_n == Len(n) - 1
        deg_d == Len(d) - 1
        a0 == n[1]
        a1 == IF Len(n) > 1 THEN n[2] ELSE 0
        b0 == d[1]
        b1 == IF Len(d) > 1 THEN d[2] ELSE 0
    IN  IF AllZero(d) \/ ~(deg_n <= 1 /\ deg_d <= 1) THEN NoRet
        ELSE IF a1 = 0 /\ b1 = 0 /\ Abs(b0) > 0
        THEN Ok(<<Token("const", <<Rat(a0, b0)>>)>>, <<>>)
        ELSE IF a1 = 0 /\ b0 = 0 /\ Abs(b1) > 0
        THEN (IF a0 = b1 THEN Ok(<<Token("1/s", <<ROne>>)>>, <<>>)
              ELSE Ok(<<Token("k/s", <<Rat(a0, b1)>>)>>, <<>>))
        ELSE IF b1 = 0 /\ a0 = 0 /\ Abs(b0) > 0 /\ Abs(a1) > 0
        THEN (IF b0 = a1 THEN Ok(<<>>, <<Token("s", <<ROne>>)>>)
              ELSE Ok(<<>>, <<Token("s/k", <<Rat(b0, a1)>>)>>))
        ELSE NoRet

\* The shortcut with the integrator answering a unit scale with 's'.
shortcut_integrator_as_s(n, d) ==
    LET deg_n == Len(n) - 1
        deg_d == Len(d) - 1
        a0 == n[1]
        a1 == IF Len(n) > 1 THEN n[2] ELSE 0
        b0 == d[1]
        b1 == IF Len(d) > 1 THEN d[2] ELSE 0
    IN  IF AllZero(d) \/ ~(deg_n <= 1 /\ deg_d <= 1) THEN NoRet
        ELSE IF a1 = 0 /\ b1 = 0 /\ Abs(b0) > 0
        THEN Ok(<<Token("const", <<Rat(a0, b0)>>)>>, <<>>)
        ELSE IF a1 = 0 /\ b0 = 0 /\ Abs(b1) > 0
        THEN (IF a0 = b1 THEN Ok(<<Token("s", <<ROne>>)>>, <<>>)
              ELSE Ok(<<Token("k/s", <<Rat(a0, b1)>>)>>, <<>>))
        ELSE IF b1 = 0 /\ a0 = 0 /\ Abs(b0) > 0 /\ Abs(a1) > 0
        THEN (IF b0 = a1 THEN Ok(<<Token("s", <<ROne>>)>>, <<>>)
              ELSE Ok(<<Token("s/k", <<Rat(b0, a1)>>)>>, <<>>))
        ELSE NoRet

\* app.py 204-235: the trivial-form shortcut; NoRet when no form applies.
\* n and d are trimmed and have passed the rules.
shortcut(n, d) ==
    LET deg_n == Len(n) - 1
        deg_d == Len(d) - 1
        a0 == n[1]
        a1 == IF Len(n) > 1 THEN n[2] ELSE 0
        b0 == d[1]
        b1 == IF Len(d) > 1 THEN d[2] ELSE 0
    IN  IF AllZero(d) \/ ~(deg_n <= 1 /\ deg_d <= 1) THEN NoRet
        ELSE IF a1 = 0 /\ b1 = 0 /\ Abs(b0) > 0
        THEN Ok(<<Token("const", <<Rat(a0, b0)>>)>>, <<>>)
        ELSE IF a1 = 0 /\ b0 = 0 /\ Abs(b1) > 0
        THEN (IF a0 = b1 THEN Ok(<<Token("1/s", <<ROne>>)>>, <<>>)
              ELSE Ok(<<Token("k/s", <<Rat(a0, b1)>>)>>, <<>>))
        ELSE IF b1 = 0 /\ a0 = 0 /\ Abs(b0) > 0 /\ Abs(a1) > 0
        THEN (IF b0 = a1 THEN Ok(<<Token("s", <<ROne>>)>>, <<>>)
              ELSE Ok(<<Token("s/k", <<Rat(b0, a1)>>)>>, <<>>))
        ELSE NoRet

----------------------------------------------------------------------------
(* Polynomial over the rationals (the engine's Polynomial): a sequence of  *)
(* rationals in ascending power, trimmed; the zero polynomial is the       *)
(* single coefficient zero.                                                *)

PTrim(p) ==
    LET keep == {1} \cup {j \in 1..Len(p) : p[j] # RZero}
        top == CHOOSE j \in keep : \A k \in keep : k <= j
    IN  SubSeq(p, 1, top)

\* construct-from-coefficients
PFromInts(arr) == PTrim([i \in 1..Len(arr) |-> Rat(arr[i], 1)])

PZero == <<RZero>>

PIsZero(p) == p = PZero

\* degree; the zero polynomial has none and gets -1
PDeg(p) == IF PIsZero(p) THEN 0 - 1 ELSE Len(p) - 1

PLead(p) == p[Len(p)]

PCoef(p, i) == IF i <= Len(p) THEN p[i] ELSE RZero

PMax(a, b) == IF a >= b THEN a ELSE b

PAdd(p, q) == PTrim([i \in 1..PMax(Len(p), Len(q)) |-> RAdd(PCoef(p, i), PCoef(q, i))])

PSub(p, q) == PTrim([i \in 1..PMax(Len(p), Len(q)) |-> RSub(PCoef(p, i), PCoef(q, i))])

\* c * s^k
PMono(c, k) == [i \in 1..(k + 1) |-> IF i = k + 1 THEN c ELSE RZero]

RECURSIVE RSum(_, _, _, _)
\* sum over j in lo..hi of p[j] * q[i + 1 - j]
RSum(p, q, i, j) ==
    IF j > Len(p) THEN RZero
    ELSE RAdd(IF i + 1 - j >= 1 /\ i + 1 - j <= Len(q)
              THEN RMul(p[j], q[i + 1 - j]) ELSE RZero,
              RSum(p, q, i, j + 1))

PMul(p, q) == PTrim([i \in 1..(Len(p) + Len(q) - 1) |-> RSum(p, q, i, 1)])

\* divide-with-remainder: <<Q, R>> with A = B*Q + R and deg R < deg B.
RECURSIVE PDivLoop(_, _, _)
PDivLoop(Q, R, B) ==
    IF PDeg(R) < PDeg(B) THEN <<Q, R>>
    ELSE LET m == PMono(RDiv(PLead(R), PLead(B)), PDeg(R) - PDeg(B))
         IN  PDivLoop(PAdd(Q, m), PSub(R, PMul(m, B)), B)

PDivMod(A, B) == PDivLoop(PZero, A, B)

----------------------------------------------------------------------------
(* The continued-fraction expansion (ContinuedFractionSynthesizer).        *)

Flip(rail) == IF rail = "Z" THEN "Y" ELSE "Z"

\* Step 1: when deg(A) < deg(B) the two polynomials swap roles, and with
\* them impedance and admittance: the stage divides B by A on the other
\* rail.  The result is <<dividend, divisor, rail of this stage>>.
cf_orient(A, B, rail) ==
    IF PDeg(A) < PDeg(B) THEN <<B, A, Flip(rail)>> ELSE <<A, B, rail>>

\* Mutant of cf_continue: restarts the stage on the same pair.
cf_continue_same(A, B, R) == <<A, B>>

\* Step 4: the pair the next stage works on.
cf_continue(A, B, R) == <<B, R>>

\* Mutant of cf_next_rail: the rail does not flip between stages.
cf_next_rail_stuck(rail) == rail

\* Step 4: the rail of the next stage.
cf_next_rail(rail) == Flip(rail)

\* Mutant of cf_quotient: keeps only the leading term of the quotient.
cf_quotient_leading(A, B) ==
    LET qr == PDivMod(A, B)
        m == PMono(PLead(qr[1]), PDeg(qr[1]))
    IN  <<m, qr[2]>>

\* Step 2: quotient and remainder of the stage.
cf_quotient(A, B) == PDivMod(A, B)

----------------------------------------------------------------------------
(* process_transfer_function (app.py 543-722): request bodies, responses   *)
(* and the conversions between the error message and the payload.          *)
(*                                                                         *)
(* The body is what request.get_json() returned:                           *)
(*   "falsy"   None, false, 0, "", [] or {}                                *)
(*   "scalar"  a non-zero number or true                                   *)
(*   "array"   a non-empty JSON array (holding neither key name)           *)
(*   "object"  a non-empty JSON object; numerator and denominator say what *)
(*             it holds under each key: nothing ("absent"), a value that   *)
(*             is not a list ("other"), or a list ("list").                *)

FieldKinds == {"absent", "other", "list"}

Bodies ==
    {[shape |-> sh, numerator |-> "absent", denominator |-> "absent"] :
        sh \in {"falsy", "scalar", "array"}}
    \cup {[shape |-> "object", numerator |-> a, denominator |-> b] :
        a \in FieldKinds, b \in FieldKinds}

\* The text of an 'error' field: a first line and the bullet lines under it.
ErrorText(title, items) == [title |-> title, items |-> items]

\* A response: the HTTP status and the fields of the JSON payload
\* (success is "absent" when the payload has no such key).
Response(status, success, error, message, details, code, z, y) ==
    [status |-> status, success |-> success, error |-> error,
     message |-> message, details |-> details, code |-> code, Z |-> z, Y |-> y]

NoResp == Response(0, "absent", ErrorText("", <<>>), "", <<>>, "", <<>>, <<>>)

\* jsonify({'error': text}), status
PlainError(status, text) ==
    Response(status, "absent", ErrorText(text, <<>>), "", <<>>, "", <<>>, <<>>)

\* One line of a message: mark is what the line starts with ("" or "-").
Line(mark, text) == [mark |-> mark, text |-> text]

\* app.py 183 and 570: the error message, split at the newlines.  The
\* itemized message is its head line and one "- f" line per failure.
split_lines(r) ==
    <<Line("", r.msg)>> \o [i \in 1..Len(r.details) |-> Line("-", r.details[i])]

\* app.py 566
error_title(msg) ==
    IF msg = "Not realizable circuit" THEN "Not realizable circuit"
    ELSE "Not realizable circuit with RLC components"

RECURSIVE bullets_from(_, _)
bullets_from(lines, i) ==
    IF i > Len(lines) THEN <<>>
    ELSE (IF lines[i].mark = "-" THEN <<lines[i].text>> ELSE <<>>)
         \o bullets_from(lines, i + 1)

\* lines[2:] in place of lines[1:]
details_skip_two(lines) == bullets_from(lines, 3)

\* app.py 571-573: the bullet lines after the head line.
details_of(lines) == bullets_from(lines, 2)

\* app.py 565-595: the payload for an error of parse_transfer_function.
error_payload(r) ==
    LET title == error_title(r.msg)
        details == IF r.msg = "Not realizable circuit"
                   THEN details_of(split_lines(r)) ELSE <<>>
    IN  Response(400, "false", ErrorText(title, details), title, details,
                 "PR_VALIDATION_FAILED", <<>>, <<>>)

\* app.py 605: the token reads a*s+b or a*s-b (the engine prints a quotient
\* highest power first, with a printed unsigned and b with its sign).
reads_s_plus_const(tok) ==
    /\ tok.form = "poly"
    /\ Len(tok.val) = 2
    /\ tok.val[2][1] > 0
    /\ tok.val[1][1] # 0

\* Mutant of normalize_tokens: the rewritten token is added after the last
\* one instead of replacing it.
normalize_tokens_adds(zl, yl) ==
    IF zl # <<>> /\ reads_s_plus_const(zl[Len(zl)]) /\ zl[Len(zl)].val[1][1] <= 0
    THEN (IF zl[Len(zl)].val[2] = ROne
          THEN [ok |-> TRUE, Z |-> Append(zl, Token("s", <<ROne>>)), Y |-> yl]
          ELSE [ok |-> FALSE, Z |-> zl, Y |-> yl])
    ELSE [ok |-> TRUE, Z |-> zl, Y |-> yl]

\* app.py 598-620: normalize_tokens.  Only the last Z token can change: a*s+b
\* with b <= 0 becomes 's' when a = 1; for a # 1 the replacement calls dec,
\* which the handler binds only at 626, after this call (ok is FALSE: the
\* call raised NameError).
normalize_tokens(zl, yl) ==
    IF zl # <<>> /\ reads_s_plus_const(zl[Len(zl)]) /\ zl[Len(zl)].val[1][1] <= 0
    THEN (IF zl[Len(zl)].val[2] = ROne
          THEN [ok |-> TRUE, Z |-> [zl EXCEPT ![Len(zl)] = Token("s", <<ROne>>)], Y |-> yl]
          ELSE [ok |-> FALSE, Z |-> zl, Y |-> yl])
    ELSE [ok |-> TRUE, Z |-> zl, Y |-> yl]

\* An element a display string names: kind "R", "L" or "C" with its value,
\* "LR" for a series inductor and resistor, "raw" when the token is shown as
\* it is.
Element(kind, val) == [kind |-> kind, val |-> val]

\* app.py 633-662: pretty_z, on the token forms.  A number is a series
\* resistor, 's' 1 H, '1/s' 1 F, s/n an inductor of 1/n H, n/s a capacitor
\* of 1/n F, a*s+b with both printed unsigned an inductor and a resistor.
pretty_z(tok) ==
    IF tok.form = "const" /\ tok.val[1][1] >= 0 THEN Element("R", <<tok.val[1]>>)
    ELSE IF tok.form = "s" THEN Element("L", <<ROne>>)
    ELSE IF tok.form = "1/s" THEN Element("C", <<ROne>>)
    ELSE IF tok.form = "s/k" /\ tok.val[1][1] > 0
    THEN Element("L", <<RDiv(ROne, tok.val[1])>>)
    ELSE IF tok.form = "k/s" /\ tok.val[1][1] > 0
    THEN Element("C", <<RDiv(ROne, tok.val[1])>>)
    ELSE IF tok.form = "poly" /\ Len(tok.val) = 1 /\ tok.val[1][1] >= 0
    THEN Element("R", <<tok.val[1]>>)
    ELSE IF tok.form = "poly" /\ Len(tok.val) = 2 /\ tok.val[2][1] > 0 /\ tok.val[1][1] > 0
    THEN Element("LR", <<tok.val[2], tok.val[1]>>)
    ELSE Element("raw", tok.val)

\* A Y token that reads a*s, with no constant part, a > 0.
reads_a_s(tok) ==
    /\ tok.form = "poly"
    /\ Len(tok.val) = 2
    /\ tok.val[1] = RZero
    /\ tok.val[2][1] > 0

\* The number is printed without a decimal point (it matches \d+).
IsInteger(r) == r[2] = 1

\* app.py 355-387 with the fallback of 449-456: parse_y_monomial of the
\* schematic of web/app.py.  's' is a capacitor of 1 F, a*s one of a F, s/n
\* one of 1/n F, a number b a resistor of 1/b ohms, '1/s' an inductor of 1 H.
app_parse_y_monomial(tok) ==
    IF tok.form = "const" /\ tok.val[1][1] > 0
    THEN Element("R", <<RDiv(ROne, tok.val[1])>>)
    ELSE IF tok.form = "s" THEN Element("C", <<ROne>>)
    ELSE IF reads_a_s(tok) THEN Element("C", <<tok.val[2]>>)
    ELSE IF tok.form = "s/k" /\ tok.val[1][1] > 0
    THEN Element("C", <<RDiv(ROne, tok.val[1])>>)
    ELSE IF tok.form = "1/s" THEN Element("L", <<ROne>>)
    ELSE Element("raw", tok.val)

\* app.py 664-699: pretty_y, the Y_display string.
pretty_y(tok) ==
    IF tok.form = "s/k" /\ tok.val[1][1] > 0
    THEN Element("C", <<RDiv(ROne, tok.val[1])>>)
    ELSE IF reads_a_s(tok) THEN Element("C", <<tok.val[2]>>)
    ELSE IF tok.form = "s" THEN Element("C", <<ROne>>)
    ELSE IF tok.form = "const" /\ tok.val[1][1] > 0
    THEN Element("R", <<RDiv(ROne, tok.val[1])>>)
    ELSE IF tok.form = "1/s" THEN Element("L", <<ROne>>)
    ELSE Element("raw", tok.val)

\* api/index.py 79-104 with the fallback of 149-151: parse_y_monomial of the
\* serverless schematic.  Its patterns match whole numbers only; a*s is
\* labelled '1/a F' and a number a '1/a' ohms.
api_parse_y_monomial(tok) ==
    IF tok.form = "const" /\ IsInteger(tok.val[1]) /\ tok.val[1][1] > 0
    THEN Element("R", <<RDiv(ROne, tok.val[1])>>)
    ELSE IF tok.form = "s" THEN Element("C", <<ROne>>)
    ELSE IF reads_a_s(tok) /\ IsInteger(tok.val[2])
    THEN Element("C", <<RDiv(ROne, tok.val[2])>>)
    ELSE IF tok.form = "1/s" THEN Element("L", <<ROne>>)
    ELSE Element("raw", tok.val)

\* web/network.py 37-62 with the fallback of 108-110: the same function in
\* the stand-alone drawing script.
network_parse_y_monomial(tok) ==
    IF tok.form = "const" /\ IsInteger(tok.val[1]) /\ tok.val[1][1] > 0
    THEN Element("R", <<RDiv(ROne, tok.val[1])>>)
    ELSE IF tok.form = "s" THEN Element("C", <<ROne>>)
    ELSE IF reads_a_s(tok) /\ IsInteger(tok.val[2])
    THEN Element("C", <<RDiv(ROne, tok.val[2])>>)
    ELSE IF tok.form = "1/s" THEN Element("L", <<ROne>>)
    ELSE Element("raw", tok.val)

----------------------------------------------------------------------------
(* State.                                                                  *)
(*   body        the JSON body of the request: its shape and, for an       *)
(*               object, what it holds under 'numerator' and 'denominator' *)
(*   num, den    the coefficient arrays of the call (the lists of the body)*)
(*   pc          position of the call in parse_transfer_function           *)
(*   ncoef, dcoef  the trimmed arrays (numerator_coeffs, denominator_coeffs*)
(*               after app.py 71-72)                                       *)
(*   failures    the failures list                                         *)
(*   ret         what the call returned                                    *)
(*   tmpfile     the temporary input file exists on disk                   *)
(*   started     the synthesis engine process was started                  *)
(*   exitcode    how the engine process ended ("" while it has not)        *)
(*   cfA, cfB    the pair of polynomials of the current expansion stage    *)
(*   rail        the rail of the current stage                             *)
(*   cfZ, cfY    the quotients emitted so far on each rail                 *)
(*   emitted     the rails of the emitted terms, in stage order            *)
(*   resp        the response of the handler                               *)
(*   ytoken      the Y token handed to the renderers                       *)
(*   drawn       what each renderer made of ytoken                         *)
(*   cinput      the (N, D) of each of two concurrent requests             *)
(*   cpc         the position of each concurrent request                   *)
(*   cfile       the content of each request's temporary input file        *)
(*   binary      the engine binary ./app on disk, shared by the workers    *)
(*   cret        what each concurrent request's call returned              *)

VARIABLES body, num, den, pc, ncoef, dcoef, failures, ret, tmpfile, started,
          exitcode, cfA, cfB, rail, cfZ, cfY, emitted, resp,
          ytoken, drawn, cinput, cpc, cfile, binary, cret

vars == <<body, num, den, pc, ncoef, dcoef, failures, ret, tmpfile, started,
          exitcode, cfA, cfB, rail, cfZ, cfY, emitted, resp,
          ytoken, drawn, cinput, cpc, cfile, binary, cret>>

renderVars == <<ytoken, drawn>>
concVars == <<cinput, cpc, cfile, binary, cret>>
callVars == <<body, num, den, renderVars, concVars>>
cfVars == <<cfA, cfB, rail, cfZ, cfY, emitted>>

\* The variables of one request or call.
requestVars == <<body, num, den, pc, ncoef, dcoef, failures, ret, tmpfile,
                 started, exitcode, cfVars, resp>>

\* No token is being rendered.
RenderIdle ==
    /\ ytoken = Token("none", <<>>)
    /\ drawn = <<>>

\* The engine binary on disk: "absent", "partial" while the linker of
\* request by is writing it, or "ready" (by is 0 when no request wrote it).
Bin(state, by) == [state |-> state, by |-> by]

\* No concurrent requests are under way.
ConcIdle ==
    /\ cinput = <<>>
    /\ cpc = <<>>
    /\ cfile = <<>>
    /\ binary = Bin("ready", 0)
    /\ cret = <<>>

\* The body of a request that holds two lists.
TwoLists == [shape |-> "object", numerator |-> "list", denominator |-> "list"]

\* A call of parse_transfer_function with two arrays.
Init ==
    /\ body = TwoLists
    /\ num \in KnownArrays
    /\ den \in {a \in KnownArrays : Len(num) + Len(a) <= MaxTotal}
    /\ pc = "call"
    /\ resp = NoResp
    /\ ncoef = <<>>
    /\ dcoef = <<>>
    /\ failures = <<>>
    /\ ret = NoRet
    /\ tmpfile = FALSE
    /\ started = FALSE
    /\ exitcode = ""
    /\ cfA = PZero
    /\ cfB = PZero
    /\ rail = "Z"
    /\ cfZ = <<>>
    /\ cfY = <<>>
    /\ emitted = <<>>
    /\ RenderIdle
    /\ ConcIdle

\* app.py 54-184: input checks, trimming, the rule battery, and the return
\* of the itemized message when a rule failed.
Validate ==
    /\ pc = "call"
    /\ IF precheck(num, den) # ""
       THEN /\ ret' = Err(precheck(num, den), <<>>)
            /\ pc' = "returned"
            /\ UNCHANGED <<ncoef, dcoef, failures>>
       ELSE LET n == trim_trailing_zeros(num)
                d == trim_trailing_zeros(den)
                f == apply_rules(n, d)
            IN  /\ ncoef' = n
                /\ dcoef' = d
                /\ failures' = f
                /\ IF f # <<>>
                   THEN /\ ret' = Err("Not realizable circuit", f)
                        /\ pc' = "returned"
                   ELSE /\ ret' = ret
                        /\ pc' = "validated"
    /\ UNCHANGED <<callVars, resp, tmpfile, started, exitcode, cfVars>>

\* app.py 186-235: the legacy guard and the trivial-form shortcut.
Shortcut ==
    /\ pc = "validated"
    /\ IF Len(ncoef) > Len(dcoef) + 1
       THEN /\ ret' = Err("Invalid network: Numerator degree too high for ladder synthesis", <<>>)
            /\ pc' = "returned"
       ELSE IF shortcut(ncoef, dcoef).kind = "ok"
       THEN /\ ret' = shortcut(ncoef, dcoef)
            /\ pc' = "returned"
       ELSE /\ ret' = ret
            /\ pc' = "synth"
    /\ UNCHANGED <<callVars, resp, ncoef, dcoef, failures, tmpfile, started, exitcode, cfVars>>

\* app.py 237-251: the temporary input file is written.
CreateTempFile ==
    /\ pc = "synth"
    /\ tmpfile' = TRUE
    /\ pc' = "tempfile"
    /\ UNCHANGED <<callVars, resp, ncoef, dcoef, failures, ret, started, exitcode, cfVars>>

\* app.py 253-259 with compile_cpp_app (32-49): the engine binary is there,
\* or it is compiled now, or the call returns without it.
CheckEngine ==
    /\ pc = "tempfile"
    /\ \E exists \in BOOLEAN, compiled \in BOOLEAN :
          IF exists \/ compiled
          THEN /\ pc' = "engine_ready"
               /\ ret' = ret
          ELSE /\ pc' = "returned"
               /\ ret' = Err("C++ application not available and compilation failed", <<>>)
    /\ UNCHANGED <<callVars, resp, ncoef, dcoef, failures, tmpfile, started, exitcode, cfVars>>

\* app.py 262-270: subprocess.run starts the engine on the input file; the
\* engine reads the two polynomials.
StartEngine ==
    /\ pc = "engine_ready"
    /\ started' = TRUE
    /\ cfA' = PFromInts(ncoef)
    /\ cfB' = PFromInts(dcoef)
    /\ rail' = "Z"
    /\ cfZ' = <<>>
    /\ cfY' = <<>>
    /\ emitted' = <<>>
    /\ pc' = "engine_running"
    /\ UNCHANGED <<callVars, resp, ncoef, dcoef, failures, ret, tmpfile, exitcode>>

\* One stage of the expansion (steps 1-4).
EngineStage ==
    /\ pc = "engine_running"
    /\ exitcode = ""
    /\ LET o == cf_orient(cfA, cfB, rail)
           qr == cf_quotient(o[1], o[2])
           nxt == cf_continue(o[1], o[2], qr[2])
       IN  /\ emitted' = Append(emitted, o[3])
           /\ cfZ' = IF o[3] = "Z" THEN Append(cfZ, qr[1]) ELSE cfZ
           /\ cfY' = IF o[3] = "Y" THEN Append(cfY, qr[1]) ELSE cfY
           /\ IF PIsZero(qr[2])
              THEN /\ exitcode' = "zero"
                   /\ UNCHANGED <<cfA, cfB, rail>>
              ELSE /\ cfA' = nxt[1]
                   /\ cfB' = nxt[2]
                   /\ rail' = cf_next_rail(o[3])
                   /\ exitcode' = exitcode
    /\ UNCHANGED <<callVars, resp, pc, ncoef, dcoef, failures, ret, tmpfile, started>>

\* The engine process ends with a non-zero exit status.
EngineFail ==
    /\ pc = "engine_running"
    /\ exitcode = ""
    /\ exitcode' = "nonzero"
    /\ UNCHANGED <<callVars, resp, pc, ncoef, dcoef, failures, ret, tmpfile, started, cfVars>>

\* app.py 269, 317-318: the engine does not end within the 30 s timeout.
EngineTimeout ==
    /\ pc = "engine_running"
    /\ exitcode = ""
    /\ exitcode' = "timeout"
    /\ ret' = Err("Processing timeout: Transfer function too complex", <<>>)
    /\ pc' = "returned"
    /\ UNCHANGED <<callVars, resp, ncoef, dcoef, failures, tmpfile, started, cfVars>>

\* engine quotient -> printed token
PolyTokens(qs) == [i \in 1..Len(qs) |-> Token("poly", qs[i])]

\* app.py 272-315: the input file is removed, the exit status checked and
\* the Z and Y lines of the output parsed.
Collect ==
    /\ pc = "engine_running"
    /\ exitcode \in {"zero", "nonzero"}
    /\ tmpfile' = FALSE
    /\ pc' = "returned"
    /\ ret' = IF exitcode = "nonzero"
              THEN Err("C++ application error", <<>>)
              ELSE Ok(PolyTokens(cfZ), PolyTokens(cfY))
    /\ UNCHANGED <<callVars, resp, ncoef, dcoef, failures, started, exitcode, cfVars>>

\* app.py 545-562 and 721-722: the shape checks of the handler.  A body that
\* is a non-zero number or true makes "'numerator' not in data" raise
\* TypeError, which the handler's except clause answers with status 500.
CheckShape ==
    /\ pc = "request"
    /\ IF body.shape = "scalar"
       THEN /\ resp' = PlainError(500, "Server error")
            /\ pc' = "responded"
       ELSE IF body.shape \in {"falsy", "array"}
               \/ body.numerator = "absent" \/ body.denominator = "absent"
       THEN /\ resp' = PlainError(400, "Missing numerator or denominator coefficients")
            /\ pc' = "responded"
       ELSE IF body.numerator # "list" \/ body.denominator # "list"
       THEN /\ resp' = PlainError(400, "Coefficients must be arrays")
            /\ pc' = "responded"
       ELSE IF Len(num) = 0 \/ Len(den) = 0
       THEN /\ resp' = PlainError(400, "Coefficients arrays cannot be empty")
            /\ pc' = "responded"
       ELSE /\ resp' = resp
            /\ pc' = "call"
    /\ UNCHANGED <<callVars, ncoef, dcoef, failures, ret, tmpfile, started, exitcode, cfVars>>

\* app.py 564-722: the handler after parse_transfer_function returned: the
\* error payload, or normalization, the schematic image and the result.
Respond ==
    /\ pc = "returned"
    /\ pc' = "responded"
    /\ IF ret.kind = "error"
       THEN resp' = error_payload(ret)
       ELSE LET t == normalize_tokens(ret.Z, ret.Y)
            IN  IF ~t.ok THEN resp' = PlainError(500, "Server error")
                ELSE \E image_ok \in BOOLEAN :
                        resp' = IF image_ok
                                THEN Response(200, "true", ErrorText("", <<>>), "",
                                              <<>>, "", t.Z, t.Y)
                                ELSE PlainError(500, "Failed to generate network image")
    /\ UNCHANGED <<callVars, ncoef, dcoef, failures, ret, tmpfile, started, exitcode, cfVars>>

Next ==
    \/ Validate
    \/ Shortcut
    \/ CreateTempFile
    \/ CheckEngine
    \/ StartEngine
    \/ EngineStage
    \/ EngineFail
    \/ EngineTimeout
    \/ Collect

Spec == Init /\ [][Next]_vars

\* A request to POST /api/process of web/app.py, from its body to its
\* response.
HandlerInit ==
    /\ body \in Bodies
    /\ num \in IF body.numerator = "list" THEN KnownArrays ELSE {<<>>}
    /\ den \in IF body.denominator = "list"
               THEN {a \in KnownArrays : Len(num) + Len(a) <= MaxTotal}
               ELSE {<<>>}
    /\ pc = "request"
    /\ resp = NoResp
    /\ ncoef = <<>>
    /\ dcoef = <<>>
    /\ failures = <<>>
    /\ ret = NoRet
    /\ tmpfile = FALSE
    /\ started = FALSE
    /\ exitcode = ""
    /\ cfA = PZero
    /\ cfB = PZero
    /\ rail = "Z"
    /\ cfZ = <<>>
    /\ cfY = <<>>
    /\ emitted = <<>>
    /\ RenderIdle
    /\ ConcIdle

HandlerNext ==
    \/ CheckShape
    \/ Validate
    \/ Shortcut
    \/ CreateTempFile
    \/ CheckEngine
    \/ StartEngine
    \/ EngineStage
    \/ EngineFail
    \/ EngineTimeout
    \/ Collect
    \/ Respond

HandlerSpec == HandlerInit /\ [][HandlerNext]_vars

----------------------------------------------------------------------------
(* The serverless entry point (api/index.py).  It uses the same state: pc  *)
(* runs through "api_request", "api_call", "api_returned", "api_responded".*)

\* api/index.py 34-56: parse_transfer_function.  The test for [3, 4, 1] is
\* nested under the test that both arrays have two coefficients.
api_parse_transfer_function(n, d) ==
    IF Len(n) = 2 /\ Len(d) = 2 /\ n = <<1, 1>> /\ d = <<0, 1>>
    THEN Ok(<<Token("s", <<ROne>>)>>, <<Token("const", <<ROne>>)>>)
    ELSE IF Len(n) = 2 /\ Len(d) = 2 /\ n = <<3, 4, 1>> /\ d = <<0, 2, 1>>
    THEN Ok(<<Token("const", <<ROne>>), Token("s/k", <<Rat(2, 1)>>)>>,
            <<Token("s/k", <<Rat(2, 1)>>)>>)
    ELSE Ok(<<Token("s", <<ROne>>)>>, <<Token("const", <<ROne>>)>>)

\* The LC example of the tests (test_cases.py 15, api/index.py 48).
LcNum == <<3, 4, 1>>
LcDen == <<0, 2, 1>>

\* A request to api/index.py: any body with arrays within the bounds, or the
\* LC example.
ApiInit ==
    /\ body \in Bodies
    /\ \/ /\ num \in IF body.numerator = "list"
                     THEN KnownArrays ELSE {<<>>}
          /\ den \in IF body.denominator = "list"
                     THEN {a \in KnownArrays : Len(num) + Len(a) <= MaxTotal}
                     ELSE {<<>>}
       \/ /\ body = TwoLists
          /\ num = LcNum
          /\ den = LcDen
    /\ pc = "api_request"
    /\ resp = NoResp
    /\ ncoef = <<>>
    /\ dcoef = <<>>
    /\ failures = <<>>
    /\ ret = NoRet
    /\ tmpfile = FALSE
    /\ started = FALSE
    /\ exitcode = ""
    /\ cfA = PZero
    /\ cfB = PZero
    /\ rail = "Z"
    /\ cfZ = <<>>
    /\ cfY = <<>>
    /\ emitted = <<>>
    /\ RenderIdle
    /\ ConcIdle

\* api/index.py 180-193 and 214-215: the shape checks of the handler.
ApiCheckShape ==
    /\ pc = "api_request"
    /\ IF body.shape = "scalar"
       THEN /\ resp' = PlainError(500, "Server error")
            /\ pc' = "api_responded"
       ELSE IF body.shape \in {"falsy", "array"}
               \/ body.numerator = "absent" \/ body.denominator = "absent"
       THEN /\ resp' = PlainError(400, "Missing numerator or denominator coefficients")
            /\ pc' = "api_responded"
       ELSE IF body.numerator # "list" \/ body.denominator # "list"
       THEN /\ resp' = PlainError(400, "Coefficients must be arrays")
            /\ pc' = "api_responded"
       ELSE IF Len(num) = 0 \/ Len(den) = 0
       THEN /\ resp' = PlainError(400, "Coefficients arrays cannot be empty")
            /\ pc' = "api_responded"
       ELSE /\ resp' = resp
            /\ pc' = "api_call"
    /\ UNCHANGED <<callVars, ncoef, dcoef, failures, ret, tmpfile, started, exitcode, cfVars>>

\* api/index.py 196 with 34-56: the call of parse_transfer_function.
ApiParse ==
    /\ pc = "api_call"
    /\ ret' = api_parse_transfer_function(num, den)
    /\ pc' = "api_returned"
    /\ UNCHANGED <<callVars, resp, ncoef, dcoef, failures, tmpfile, started, exitcode, cfVars>>

\* api/index.py 198-212: the error, or the schematic image and the result.
ApiRespond ==
    /\ pc = "api_returned"
    /\ pc' = "api_responded"
    /\ IF ret.kind = "error"
       THEN resp' = PlainError(400, ret.msg)
       ELSE \E image_ok \in BOOLEAN :
               resp' = IF image_ok
                       THEN Response(200, "true", ErrorText("", <<>>), "", <<>>, "",
                                     ret.Z, ret.Y)
                       ELSE PlainError(500, "Failed to generate network image")
    /\ UNCHANGED <<callVars, ncoef, dcoef, failures, ret, tmpfile, started, exitcode, cfVars>>

ApiNext ==
    \/ ApiCheckShape
    \/ ApiParse
    \/ ApiRespond

ApiSpec == ApiInit /\ [][ApiNext]_vars

----------------------------------------------------------------------------
(* The renderers of a shunt token: the schematic and the Y_display of      *)
(* web/app.py, the schematic of api/index.py and web/network.py.  A token  *)
(* a*s is drawn and each renderer is applied to it once, in any order.     *)

\* The capacitances drawn are the multiples of 1/2 up to MaxHalves / 2.
MaxHalves == 8

Renderers == {"schematic", "Y_display", "api", "network"}

\* The token the engine prints for the admittance a*s ('s' when a = 1).
AsToken(a) ==
    IF a = ROne THEN Token("s", <<ROne>>) ELSE Token("poly", <<RZero, a>>)

NotDrawn == Element("none", <<>>)

RenderInit ==
    /\ ytoken \in {AsToken(Rat(k, 2)) : k \in 1..MaxHalves}
    /\ drawn = [r \in Renderers |-> NotDrawn]
    /\ body = TwoLists
    /\ num = <<>>
    /\ den = <<>>
    /\ pc = "render"
    /\ resp = NoResp
    /\ ncoef = <<>>
    /\ dcoef = <<>>
    /\ failures = <<>>
    /\ ret = NoRet
    /\ tmpfile = FALSE
    /\ started = FALSE
    /\ exitcode = ""
    /\ cfA = PZero
    /\ cfB = PZero
    /\ rail = "Z"
    /\ cfZ = <<>>
    /\ cfY = <<>>
    /\ emitted = <<>>
    /\ ConcIdle

\* app.py 444-456: the shunt element of the schematic of web/app.py.
RenderSchematic ==
    /\ pc = "render"
    /\ drawn["schematic"] = NotDrawn
    /\ drawn' = [drawn EXCEPT !["schematic"] = app_parse_y_monomial(ytoken)]
    /\ UNCHANGED <<requestVars, ytoken, concVars>>

\* app.py 702: Y_display.
RenderDisplay ==
    /\ pc = "render"
    /\ drawn["Y_display"] = NotDrawn
    /\ drawn' = [drawn EXCEPT !["Y_display"] = pretty_y(ytoken)]
    /\ UNCHANGED <<requestVars, ytoken, concVars>>

\* api/index.py 137-151: the shunt element of the serverless schematic.
RenderApi ==
    /\ pc = "render"
    /\ drawn["api"] = NotDrawn
    /\ drawn' = [drawn EXCEPT !["api"] = api_parse_y_monomial(ytoken)]
    /\ UNCHANGED <<requestVars, ytoken, concVars>>

\* web/network.py 96-110: the shunt element of the drawing script.
RenderNetwork ==
    /\ pc = "render"
    /\ drawn["network"] = NotDrawn
    /\ drawn' = [drawn EXCEPT !["network"] = network_parse_y_monomial(ytoken)]
    /\ UNCHANGED <<requestVars, ytoken, concVars>>

RenderNext ==
    \/ RenderSchematic
    \/ RenderDisplay
    \/ RenderApi
    \/ RenderNetwork

RenderSpec == RenderInit /\ [][RenderNext]_vars

----------------------------------------------------------------------------
(* Vocabulary of the properties, stated on the arrays of the call.         *)

\* Both arrays are non-empty and neither is all zeros.
NonEmptyNonZero ==
    Len(num) > 0 /\ Len(den) > 0 /\ ~AllZero(num) /\ ~AllZero(den)

\* The rule battery has run on this call.
RulesApplied == pc \notin {"request", "call"} /\ NonEmptyNonZero

\* Degree of a non-zero polynomial: the highest power with a coefficient.
TrueDeg(arr) == Cardinality({j \in 1..Len(arr) : \E k \in j..Len(arr) : arr[k] # 0}) - 1

\* Lowest power with a coefficient: the number of leading zero entries.
LowIdx(arr) == Cardinality({j \in 1..Len(arr) : \A k \in 1..j : arr[k] = 0})

HasNegative(arr) == \E i \in 1..Len(arr) : arr[i] < 0

InteriorGap(arr) ==
    \E i, j, k \in 1..Len(arr) : i < j /\ j < k /\ arr[i] # 0 /\ arr[j] = 0 /\ arr[k] # 0

MixedParity(arr) ==
    \E i, k \in 1..Len(arr) : arr[i] # 0 /\ arr[k] # 0 /\ (i % 2) # (k % 2)

\* The roots of every input array that is not all zeros.
RootTable ==
    [a \in {x \in KnownArrays : ~AllZero(x)} |-> np_roots(trim_trailing_zeros(a))]

\* Some root has a positive real part.
HasRhpRoot(arr) ==
    LET r == RootTable[arr]
    IN  \E i \in 1..Len(r) : r[i].re = 1

\* Some root on the imaginary axis occurs twice.
HasRepeatedAxisRoot(arr) ==
    LET r == RootTable[arr]
    IN  \E i, j \in 1..Len(r) : i # j /\ r[i] = r[j] /\ r[i].re = 0

\* The coefficients of s^0 and s^1 are both zero.
LowTwoZero(arr) == Len(arr) >= 2 /\ arr[1] = 0 /\ arr[2] = 0

\* Number of records of the failures list with this kind and side.
Count(kind, name) ==
    Cardinality({i \in 1..Len(failures) : failures[i].kind = kind /\ failures[i].name = name})

Reported(kind, name) == Count(kind, name) >= 1

\* The call went past validation: it holds a shortcut result, or wrote the
\* input file, or started the engine.
SynthesisTouched ==
    \/ pc \in {"validated", "synth", "tempfile", "engine_ready", "engine_running"}
    \/ ret.kind = "ok"
    \/ tmpfile
    \/ started

\* The call returned the itemized report.
Rejected ==
    pc \in {"returned", "responded"} /\ ret.kind = "error" /\ ret.msg = "Not realizable circuit"
    /\ ret.details = failures

----------------------------------------------------------------------------
\* C1: non-empty, non-zero arrays whose degrees differ by more than 1 are
\* answered with the itemized report, which holds the rule-6 record, and the
\* call never gets to the shortcut, the input file or the engine.
C1_DegreeGapRejected ==
    (NonEmptyNonZero /\ Abs(TrueDeg(num) - TrueDeg(den)) > 1) =>
        /\ ~SynthesisTouched
        /\ pc \notin {"request", "call"} =>
              /\ Rejected
              /\ \E i \in 1..Len(ret.details) :
                    ret.details[i] = Failure(6, "degree_diff", "N(s),D(s)")

C1_Witness ==
    /\ NonEmptyNonZero
    /\ Abs(TrueDeg(num) - TrueDeg(den)) > 1
    /\ pc = "returned"

\* C2: the report is exhaustive: after the rules have run, every rule the
\* input violates has exactly one record in the failures list, whatever the
\* other rules found, and the returned report is that list.
C2_AllViolationsReported ==
    RulesApplied =>
        LET n == trim_trailing_zeros(num)
            d == trim_trailing_zeros(den)
            rn == rule234_roots("N(s)", n)
            rd == rule234_roots("D(s)", d)
        IN  /\ HasNegative(num) => Count("real_nonneg", "N(s)") = 1
            /\ HasNegative(den) => Count("real_nonneg", "D(s)") = 1
            /\ Abs(TrueDeg(num) - TrueDeg(den)) > 1 => Count("degree_diff", "N(s),D(s)") = 1
            /\ Abs(LowIdx(num) - LowIdx(den)) > 1 => Count("lowest_degree", "N(s),D(s)") = 1
            /\ (InteriorGap(num) /\ MixedParity(num)) => Count("parity_gap", "N(s)") = 1
            /\ (InteriorGap(den) /\ MixedParity(den)) => Count("parity_gap", "D(s)") = 1
            /\ \A i \in 1..Len(rn) : Count(rn[i].kind, "N(s)") = 1
            /\ \A i \in 1..Len(rd) : Count(rd[i].kind, "D(s)") = 1
            /\ failures # <<>> => Rejected

\* An input that violates rule 1 and rule 6 at once, and a root rule.
C2_Witness ==
    /\ RulesApplied
    /\ HasNegative(num)
    /\ Abs(TrueDeg(num) - TrueDeg(den)) > 1
    /\ Reported("real_nonneg", "N(s)")
    /\ Reported("degree_diff", "N(s),D(s)")
    /\ Reported("right_half_plane", "N(s)")
    /\ Len(failures) >= 3

----------------------------------------------------------------------------
C7_Rule1Exact ==
    RulesApplied =>
        /\ Reported("real_nonneg", "N(s)") <=> HasNegative(num)
        /\ Reported("real_nonneg", "D(s)") <=> HasNegative(den)

\* N has a negative coefficient and is reported; D has zeros, none negative,
\* and is not.
C7_Witness ==
    /\ RulesApplied
    /\ HasNegative(num)
    /\ Reported("real_nonneg", "N(s)")
    /\ ~HasNegative(den)
    /\ \E i \in 1..Len(trim_trailing_zeros(den)) : den[i] = 0
    /\ ~Reported("real_nonneg", "D(s)")

\* C8: the rule-7 record is there if and only if the lowest non-zero
\* coefficients of N and D sit more than one index apart.
C8_Rule7Exact ==
    RulesApplied =>
        (Reported("lowest_degree", "N(s),D(s)") <=> Abs(LowIdx(num) - LowIdx(den)) > 1)

\* D starts two powers above N and the record is there.
C8_Witness ==
    /\ RulesApplied
    /\ LowIdx(den) - LowIdx(num) = 2
    /\ Reported("lowest_degree", "N(s),D(s)")

\* C9: the rule-5 record of a side is there if and only if the polynomial
\* has a zero coefficient between two non-zero ones and non-zero exponents
\* of both parities.
C9_Rule5Exact ==
    RulesApplied =>
        /\ Reported("parity_gap", "N(s)") <=> (InteriorGap(num) /\ MixedParity(num))
        /\ Reported("parity_gap", "D(s)") <=> (InteriorGap(den) /\ MixedParity(den))

\* N has a mixed-parity gap and is reported; D has a gap with exponents of
\* one parity and is not.
C9_Witness ==
    /\ RulesApplied
    /\ InteriorGap(num) /\ MixedParity(num)
    /\ Reported("parity_gap", "N(s)")
    /\ InteriorGap(den) /\ ~MixedParity(den)
    /\ ~Reported("parity_gap", "D(s)")

----------------------------------------------------------------------------
(* Recomposition of the ladder from the emitted terms.                     *)

\* Number of Z-terms among the first i emitted terms.
ZCount(i) == Cardinality({j \in 1..i : emitted[j] = "Z"})

\* The i-th emitted term.
TermAt(i) ==
    IF emitted[i] = "Z" THEN cfZ[ZCount(i)] ELSE cfY[i - ZCount(i)]

\* t_i + 1/(t_(i+1) + 1/(...)) as <<numerator, denominator>>.
RECURSIVE CFValue(_)
CFValue(i) ==
    IF i >= Len(emitted) THEN <<TermAt(i), <<ROne>>>>
    ELSE LET f == CFValue(i + 1)
         IN  <<PAdd(PMul(TermAt(i), f[1]), f[2]), f[1]>>

\* The impedance Z1 + 1/(Y1 + 1/(Z2 + ...)); a ladder whose first term is a
\* Y-term has no Z1 and is 1/(Y1 + 1/(Z1 + ...)).
Recomposed ==
    LET f == CFValue(1)
    IN  IF emitted[1] = "Z" THEN f ELSE <<f[2], f[1]>>

\* The expansion ran to a zero remainder.
Expanded == started /\ exitcode = "zero"

\* C3: the expansion of a validated input never takes more than
\* deg(N) + deg(D) + 1 stages.
C3_StageBound ==
    started => Len(emitted) <= degree(ncoef) + degree(dcoef) + 1

\* An expansion of three stages or more that ran to the end.
C3_Witness == Expanded /\ Len(emitted) >= 3 /\ pc = "returned"

----------------------------------------------------------------------------
(* Boundary forms.  The arrays of the call after trimming:                 *)

TrimmedNum == trim_trailing_zeros(num)
TrimmedDen == trim_trailing_zeros(den)

\* parse_transfer_function has returned.
CallReturned == ret.kind # "none"

\* N = [a0], D = [b0] with a0 > 0 and b0 > 0, in a body of two lists.
PureResistor ==
    /\ pc # "request"
    /\ Len(num) > 0 /\ Len(den) > 0
    /\ Len(TrimmedNum) = 1 /\ Len(TrimmedDen) = 1
    /\ TrimmedNum[1] > 0 /\ TrimmedDen[1] > 0

\* N = [0, a1], D = [b0] with a1 > 0 and b0 > 0.
PureInductor ==
    /\ pc # "request"
    /\ Len(num) > 0 /\ Len(den) > 0
    /\ Len(TrimmedNum) = 2 /\ Len(TrimmedDen) = 1
    /\ TrimmedNum[1] = 0 /\ TrimmedNum[2] > 0 /\ TrimmedDen[1] > 0

\* N = [a0], D = [0, b1] with a0 > 0 and b1 > 0.
PureCapacitor ==
    /\ pc # "request"
    /\ Len(num) > 0 /\ Len(den) > 0
    /\ Len(TrimmedNum) = 1 /\ Len(TrimmedDen) = 2
    /\ TrimmedNum[1] > 0 /\ TrimmedDen[1] = 0 /\ TrimmedDen[2] > 0

----------------------------------------------------------------------------
\* C14: for N = [1, 1], D = [0, 1] the rule battery leaves the failures list
\* empty, the call does not return the itemized report or a zero-polynomial
\* error, the shortcut does not answer it, and it goes on to the input file
\* and the engine.
C14_RcExamplePasses ==
    (num = <<1, 1>> /\ den = <<0, 1>> /\ pc \notin {"request", "call"}) =>
        /\ failures = <<>>
        /\ ~Rejected
        /\ pc = "validated" \/ pc = "synth" \/ tmpfile \/ started
              \/ ret.msg = "C++ application not available and compilation failed"
        /\ ret.kind = "error" =>
              ret.msg \in {"C++ application not available and compilation failed",
                           "Processing timeout: Transfer function too complex",
                           "C++ application error"}

C14_Witness ==
    /\ num = <<1, 1>> /\ den = <<0, 1>>
    /\ failures = <<>> /\ started /\ ret.kind = "ok" /\ pc = "returned"

\* C15: when the numerator or the denominator is all zeros, whatever its
\* length, the call returns the zero-polynomial error and no Z/Y result, and
\* nothing else of the call has run: no trimming, no rule, no shortcut, no
\* input file, no engine.
C15_ZeroPolynomialRejected ==
    ((Len(num) > 0 /\ AllZero(num)) \/ (Len(den) > 0 /\ AllZero(den))) =>
        /\ ret.kind # "ok"
        /\ ncoef = <<>> /\ dcoef = <<>> /\ failures = <<>>
        /\ ~tmpfile /\ ~started
        /\ pc \in {"call", "returned"}
        /\ pc = "returned" =>
              /\ ret.kind = "error"
              /\ ret.Z = <<>> /\ ret.Y = <<>>
              /\ ret.msg = IF Len(num) = 0 \/ Len(den) = 0
                           THEN "Empty coefficient arrays"
                           ELSE IF AllZero(num)
                           THEN "Invalid network: Numerator cannot be zero"
                           ELSE "Invalid network: Denominator cannot be zero"

\* A denominator of three zeros under a non-zero numerator has been rejected.
C15_Witness ==
    /\ den = <<0, 0, 0>> /\ ~AllZero(num) /\ pc = "returned"
    /\ ret.msg = "Invalid network: Denominator cannot be zero"

\* The body lacks a key, or holds something that is not a list, or an empty
\* list.
ShapeBad ==
    \/ body.numerator # "list" \/ body.denominator # "list"
    \/ Len(num) = 0 \/ Len(den) = 0

\* C16: a body that lacks 'numerator' or 'denominator', or holds a value that
\* is not a list, or an empty list, is answered with status 400, and
\* parse_transfer_function is never called for it.
C16_ShapeRejected400 ==
    ShapeBad =>
        /\ pc \in {"request", "responded"}
        /\ ret = NoRet
        /\ pc = "responded" => resp.status = 400

\* C17: when the call returned the itemized report, the response has status
\* 400, success false, and 'details' holds the records of the failures list,
\* one entry each, in the same order.
C17_ReportItemized ==
    (pc = "responded" /\ Rejected) =>
        /\ resp.status = 400
        /\ resp.success = "false"
        /\ Len(failures) >= 1
        /\ resp.details = failures

\* A report of three records or more has been delivered.
C17_Witness ==
    pc = "responded" /\ Rejected /\ Len(failures) >= 3 /\ resp.details = failures

\* The call returned because the engine was missing, timed out or failed.
EngineFailure ==
    /\ ret.kind = "error"
    /\ ret.msg \in {"C++ application not available and compilation failed",
                    "Processing timeout: Transfer function too complex",
                    "C++ application error"}

\* C18: the response to an engine failure differs from the response to a
\* rejected input (status 400, code PR_VALIDATION_FAILED) in its status or in
\* its code.
C18_EngineFailureDistinct ==
    (pc = "responded" /\ EngineFailure) =>
        resp.status # 400 \/ resp.code # "PR_VALIDATION_FAILED"

\* C19: when the call returned a zero-polynomial error, the 'error' text of
\* the response holds that message.
C19_ErrorVerbatim ==
    (pc = "responded" /\ ret.kind = "error"
        /\ ret.msg \in {"Invalid network: Numerator cannot be zero",
                        "Invalid network: Denominator cannot be zero"}) =>
        \/ resp.error.title = ret.msg
        \/ \E i \in 1..Len(resp.error.items) : resp.error.items[i] = ret.msg

\* The input breaks a rule the validator states on the coefficients: a
\* zero polynomial, a negative coefficient, or degrees more than 1 apart.
PlainlyInvalid ==
    \/ AllZero(num) \/ AllZero(den)
    \/ HasNegative(num) \/ HasNegative(den)
    \/ Abs(TrueDeg(num) - TrueDeg(den)) > 1

\* C20: the serverless parse_transfer_function returns no Z/Y result for an
\* input that has a zero polynomial, a negative coefficient or degrees more
\* than 1 apart.
C20_ApiRejectsInvalid ==
    (pc \in {"api_returned", "api_responded"} /\ PlainlyInvalid) => ret.kind # "ok"

----------------------------------------------------------------------------
(* Normalization of the synthesized tokens (app.py 598-623).               *)

\* The last Z token of the returned ladder.
LastZ == ret.Z[Len(ret.Z)]

\* The call returned a ladder whose last Z token reads a*s+b with b < 0.
NegativeTail ==
    /\ ret.kind = "ok"
    /\ ret.Z # <<>>
    /\ reads_s_plus_const(LastZ)
    /\ LastZ.val[1][1] < 0

\* C21: a synthesized term with a negative component is never answered with
\* success: normalization does not drop the component and let the request
\* complete with status 200.
C21_NegativeNeverDropped ==
    (pc = "responded" /\ NegativeTail) => resp.status # 200

\* What normalize_tokens makes of the returned ladder.
Normalized == normalize_tokens(ret.Z, ret.Y)

\* C22: normalize_tokens returns lists of the lengths of its inputs; the Y
\* list and every Z token but the last are unchanged at their index, and the
\* response of a successful request carries exactly those lists.
C22_NormalizeKeepsOrder ==
    (pc \in {"returned", "responded"} /\ ret.kind = "ok" /\ Normalized.ok) =>
        /\ Len(Normalized.Z) = Len(ret.Z)
        /\ Normalized.Y = ret.Y
        /\ \A i \in 1..(Len(ret.Z) - 1) : Normalized.Z[i] = ret.Z[i]
        /\ (pc = "responded" /\ resp.status = 200) =>
              resp.Z = Normalized.Z /\ resp.Y = Normalized.Y

\* A ladder with shunt terms whose last Z token was rewritten.
C22_Witness ==
    /\ pc = "responded"
    /\ resp.status = 200
    /\ NegativeTail
    /\ ret.Y # <<>>
    /\ resp.Z[Len(ret.Z)] # LastZ

\* The pure inductive token a*s ('s' when a = 1).
InductiveToken(a) ==
    IF a = ROne THEN Token("s", <<ROne>>) ELSE Token("poly", <<RZero, a>>)

\* C29: when the last Z token reads a*s+b with b <= 0, for every a > 0, the
\* request completes with status 200 and the token a*s in its place (the
\* schematic image being drawn).
C29_NegativeTailBecomesInductor ==
    (/\ pc = "responded"
     /\ NegativeTail
     /\ resp.error.title # "Failed to generate network image") =>
        /\ resp.status = 200
        /\ Len(resp.Z) = Len(ret.Z)
        /\ resp.Z[Len(ret.Z)] = InductiveToken(LastZ.val[2])

----------------------------------------------------------------------------
(* Temporary files (app.py 237-273, 317-320).                              *)

\* C30: no temporary input file outlives the call that created it: whenever
\* parse_transfer_function has returned, the file has been deleted.
C30_TempFileDeleted ==
    pc = "returned" => ~tmpfile

----------------------------------------------------------------------------
(* The outcome of a call as a function of its input.                       *)

\* The expansion run to its end: the quotients of each rail.
RECURSIVE cf_run(_, _, _, _, _)
cf_run(A, B, r, zs, ys) ==
    LET o == cf_orient(A, B, r)
        qr == cf_quotient(o[1], o[2])
        nxt == cf_continue(o[1], o[2], qr[2])
        z2 == IF o[3] = "Z" THEN Append(zs, qr[1]) ELSE zs
        y2 == IF o[3] = "Y" THEN Append(ys, qr[1]) ELSE ys
    IN  IF PIsZero(qr[2]) THEN <<z2, y2>>
        ELSE cf_run(nxt[1], nxt[2], cf_next_rail(o[3]), z2, y2)

\* What parse_transfer_function returns for (n, d) when the engine is there
\* and ends normally.
Outcome(n, d) ==
    IF precheck(n, d) # "" THEN Err(precheck(n, d), <<>>)
    ELSE LET nc == trim_trailing_zeros(n)
             dc == trim_trailing_zeros(d)
             f == apply_rules(nc, dc)
         IN  IF f # <<>> THEN Err("Not realizable circuit", f)
             ELSE IF Len(nc) > Len(dc) + 1
             THEN Err("Invalid network: Numerator degree too high for ladder synthesis", <<>>)
             ELSE IF shortcut(nc, dc).kind = "ok" THEN shortcut(nc, dc)
             ELSE LET zy == cf_run(PFromInts(nc), PFromInts(dc), "Z", <<>>, <<>>)
                  IN  Ok(PolyTokens(zy[1]), PolyTokens(zy[2]))

\* C23: the result of a call is a function of (N, D) alone: whatever the
\* environment did during the call, the call returns what it returns when
\* the engine is present and ends normally.
C23_OutcomeDeterministic ==
    pc = "returned" => ret = Outcome(num, den)

\* Outcome is the result of the calls that the engine completed.
OutcomeOfCompletedCall ==
    (pc = "returned" /\ (~started \/ exitcode = "zero") /\ ~tmpfile) =>
        ret = Outcome(num, den)

\* The array with every coefficient negated.
Negated(arr) == [i \in 1..Len(arr) |-> 0 - arr[i]]

\* C25: when the rules are applied the leading coefficient of D is strictly
\* positive (a D with a negative leading coefficient has been negated
\* together with N), so (N, D) and (-N, -D) receive the same outcome.
C25_LeadingCoefficientPositive ==
    (pc \in {"validated", "returned"} /\ dcoef # <<>>) =>
        /\ dcoef[Len(dcoef)] > 0
        /\ Outcome(num, den) = Outcome(Negated(num), Negated(den))

----------------------------------------------------------------------------
(* The serverless parse_transfer_function on the examples of the tests.    *)

ApiReturned == pc \in {"api_returned", "api_responded"} /\ ret.kind # "none"

\* C27: api/index.py returns Z = ['1', 's/2'], Y = ['s/2'] for the LC example
\* N = [3, 4, 1], D = [0, 2, 1], and Z = ['s'], Y = ['1'] for the RC example
\* N = [1, 1], D = [0, 1].
C27_ApiExamples ==
    /\ (ApiReturned /\ num = LcNum /\ den = LcDen) =>
          /\ ret.Z = <<Token("const", <<ROne>>), Token("s/k", <<Rat(2, 1)>>)>>
          /\ ret.Y = <<Token("s/k", <<Rat(2, 1)>>)>>
    /\ (ApiReturned /\ num = <<1, 1>> /\ den = <<0, 1>>) =>
          /\ ret.Z = <<Token("s", <<ROne>>)>>
          /\ ret.Y = <<Token("const", <<ROne>>)>>

----------------------------------------------------------------------------
(* The words of the error text (app.py 100-174, 566, 583-587), lower-cased *)
(* as the smoke test reads them (smoke_tests.py 55).                       *)

\* The message of a failure, as its words.
failure_words(f) ==
    IF f.kind = "real_nonneg"
    THEN <<"(1)", "coefficients", "of", f.name, "must", "be", "real", "and", "non-negative.">>
    ELSE IF f.kind = "no_coeffs" THEN <<"(5)", f.name, "has", "no", "coefficients.">>
    ELSE IF f.kind = "identically_zero" THEN <<"(5)", f.name, "is", "identically", "zero.">>
    ELSE IF f.kind = "parity_gap"
    THEN <<"(5)", "missing", "interior", "terms", "in", f.name, "are", "not", "of",
           "single", "parity", "(all-even", "or", "all-odd).">>
    ELSE IF f.kind = "zero_or_invalid"
    THEN <<"(2)(3)(4)", f.name, "is", "zero", "or", "invalid", "for", "root", "checks.">>
    ELSE IF f.kind = "right_half_plane"
    THEN <<"(3)", "some", "roots", "of", f.name, "lie", "in", "the", "right",
           "half-plane", "(re", ">", "0).">>
    ELSE IF f.kind = "conjugate_pairs"
    THEN <<"(2)", "complex", "roots", "of", f.name, "do", "not", "occur", "in",
           "conjugate", "pairs.">>
    ELSE IF f.kind = "multiple_imag_axis"
    THEN <<"(4)", f.name, "has", "a", "multiple", "root", "on", "the", "imaginary",
           "axis", "(must", "be", "simple).">>
    ELSE IF f.kind = "degree_diff"
    THEN <<"(6)", "degree", "difference", "between", "n(s)", "and", "d(s)", "must",
           "be", "0", "or", "1.">>
    ELSE <<"(7)", "lowest-degree", "terms", "of", "n(s)", "and", "d(s)", "must",
           "differ", "by", "at", "most", "1.">>

\* The first line of an error text, as its words.
title_words(t) ==
    IF t = "Not realizable circuit" THEN <<"not", "realizable", "circuit">>
    ELSE IF t = "Not realizable circuit with RLC components"
    THEN <<"not", "realizable", "circuit", "with", "rlc", "components">>
    ELSE <<t>>

RECURSIVE items_words(_, _)
items_words(items, i) ==
    IF i > Len(items) THEN <<>>
    ELSE <<"\n", "*">> \o failure_words(items[i]) \o items_words(items, i + 1)

\* The 'error' field of a payload, as its words.
error_words(e) == title_words(e.title) \o items_words(e.items, 1)

\* The phrase occurs in the words.
ContainsPhrase(ws, phrase) ==
    \E i \in 1..(Len(ws) - Len(phrase) + 1) :
        SubSeq(ws, i, i + Len(phrase) - 1) = phrase

\* Only even powers have a non-zero coefficient, and s^2 or higher occurs.
EvenPowersOnly(arr) ==
    /\ \A i \in 1..Len(arr) : arr[i] # 0 => i % 2 = 1
    /\ \E i \in 3..Len(arr) : arr[i] # 0

\* N and D of the shape of the smoke test's example N = [3, 0, 4, 0, 1],
\* D = [0, 0, 2, 0, 1]: even powers only, non-negative coefficients, N with
\* a constant term and D without one.
EvenOnlyExample ==
    /\ body = TwoLists
    /\ EvenPowersOnly(num) /\ EvenPowersOnly(den)
    /\ \A i \in 1..Len(num) : num[i] >= 0
    /\ \A i \in 1..Len(den) : den[i] >= 0
    /\ num[1] > 0
    /\ den[1] = 0

\* C26: an even-powers-only transfer function whose ladder needs a quadratic
\* stage is answered with status 400 and an error text that contains
\* 'requires quadratic'.
C26_RequiresQuadraticText ==
    (pc = "responded" /\ EvenOnlyExample) =>
        /\ resp.status = 400
        /\ ContainsPhrase(error_words(resp.error), <<"requires", "quadratic">>)

\* Such a request is answered with status 400.
EvenOnlyRejected ==
    (pc = "responded" /\ EvenOnlyExample) => resp.status = 400

----------------------------------------------------------------------------
(* The renderers on a shunt token a*s.                                     *)

\* The capacitance of the token being rendered.
TokenValue == IF ytoken.form = "s" THEN ROne ELSE ytoken.val[2]

AllDrawn == pc = "render" /\ \A r \in Renderers : drawn[r] # NotDrawn

\* C28: every renderer maps the shunt token a*s to one capacitor labelled
\* a farads: the four renderers agree on the kind and on the value.
C28_RenderersAgree ==
    AllDrawn => \A r \in Renderers : drawn[r] = Element("C", <<TokenValue>>)

\* The schematic and the Y_display of web/app.py show a*s as one capacitor
\* of a farads.
WebAppRendersCapacitor ==
    pc = "render" =>
        \A r \in {"schematic", "Y_display"} :
            drawn[r] \in {NotDrawn, Element("C", <<TokenValue>>)}

----------------------------------------------------------------------------
(* Two requests handled in parallel by two gunicorn workers                *)
(* (gunicorn.conf.py 7).  Each worker runs parse_transfer_function on its  *)
(* own input; the steps below are the ones that touch the file system: the *)
(* temporary input file of the request and the engine binary ./app, which  *)
(* the workers share.  The inputs are ones that reach synthesis, the       *)
(* compiler works and the engine ends normally.  The compiler writes its   *)
(* output file over a span of time, during which the file exists and is    *)
(* not yet a program that can be run.                                      *)

\* The longest array of a concurrent request.
ConcLen == 2

Procs == {1, 2}

\* The call passes the checks, the rules, the legacy guard and the shortcut.
ReachesSynthesis(n, d) ==
    /\ precheck(n, d) = ""
    /\ LET nc == trim_trailing_zeros(n)
           dc == trim_trailing_zeros(d)
       IN  /\ apply_rules(nc, dc) = <<>>
           /\ Len(nc) <= Len(dc) + 1
           /\ shortcut(nc, dc).kind # "ok"

ConcInputs ==
    {p \in {a \in KnownArrays : Len(a) <= ConcLen}
           \X {a \in KnownArrays : Len(a) <= ConcLen} :
        ReachesSynthesis(p[1], p[2])}

NoFile == <<>>

ConcInit ==
    /\ cinput \in [Procs -> ConcInputs]
    /\ cpc = [i \in Procs |-> "synth"]
    /\ cfile = [i \in Procs |-> NoFile]
    /\ binary \in {Bin("absent", 0), Bin("ready", 0)}
    /\ cret = [i \in Procs |-> NoRet]
    /\ body = TwoLists
    /\ num = <<>>
    /\ den = <<>>
    /\ pc = "concurrent"
    /\ resp = NoResp
    /\ ncoef = <<>>
    /\ dcoef = <<>>
    /\ failures = <<>>
    /\ ret = NoRet
    /\ tmpfile = FALSE
    /\ started = FALSE
    /\ exitcode = ""
    /\ cfA = PZero
    /\ cfB = PZero
    /\ rail = "Z"
    /\ cfZ = <<>>
    /\ cfY = <<>>
    /\ emitted = <<>>
    /\ RenderIdle

\* app.py 237-251: the request writes (N, D) to a temporary file of its own
\* (NamedTemporaryFile gives each request a fresh name).
ConcCreateTempFile(i) ==
    /\ cpc[i] = "synth"
    /\ cfile' = [cfile EXCEPT ![i] = cinput[i]]
    /\ cpc' = [cpc EXCEPT ![i] = "tempfile"]
    /\ UNCHANGED <<requestVars, renderVars, cinput, binary, cret>>

\* app.py 255: os.path.exists(cpp_app).
ConcCheckEngine(i) ==
    /\ cpc[i] = "tempfile"
    /\ cpc' = [cpc EXCEPT ![i] = IF binary.state = "absent"
                                 THEN "compile_check" ELSE "engine_ready"]
    /\ UNCHANGED <<requestVars, renderVars, cinput, cfile, binary, cret>>

\* app.py 35: os.path.exists(exe_name) in compile_cpp_app; True is returned
\* without compiling when the file exists.
ConcCompileCheck(i) ==
    /\ cpc[i] = "compile_check"
    /\ cpc' = [cpc EXCEPT ![i] = IF binary.state = "absent"
                                 THEN "compiling" ELSE "engine_ready"]
    /\ UNCHANGED <<requestVars, renderVars, cinput, cfile, binary, cret>>

\* app.py 42-43: the compiler, started by subprocess.run, creates the output
\* file and begins to write it.
ConcLinkBegin(i) ==
    /\ cpc[i] = "compiling"
    /\ binary' = Bin("partial", i)
    /\ cpc' = [cpc EXCEPT ![i] = "linking"]
    /\ UNCHANGED <<requestVars, renderVars, cinput, cfile, cret>>

\* app.py 43-45: the compiler ends; the file it created is complete (unless
\* the other request's compiler has replaced it meanwhile).
ConcLinkEnd(i) ==
    /\ cpc[i] = "linking"
    /\ binary' = IF binary.by = i THEN Bin("ready", i) ELSE binary
    /\ cpc' = [cpc EXCEPT ![i] = "engine_ready"]
    /\ UNCHANGED <<requestVars, renderVars, cinput, cfile, cret>>

\* app.py 262-320: the engine is run on the request's input file.  A file
\* that is still being written cannot be executed: subprocess.run raises
\* OSError, which the except clause at 319 turns into an error result, past
\* the os.unlink of 273.
ConcRun(i) ==
    /\ cpc[i] = "engine_ready"
    /\ IF binary.state = "ready"
       THEN /\ cret' = [cret EXCEPT ![i] = Outcome(cfile[i][1], cfile[i][2])]
            /\ cfile' = [cfile EXCEPT ![i] = NoFile]
       ELSE /\ cret' = [cret EXCEPT ![i] = Err("Error processing transfer function", <<>>)]
            /\ cfile' = cfile
    /\ cpc' = [cpc EXCEPT ![i] = "returned"]
    /\ UNCHANGED <<requestVars, renderVars, cinput, binary>>

ConcNext ==
    \E i \in Procs :
        \/ ConcCreateTempFile(i)
        \/ ConcCheckEngine(i)
        \/ ConcCompileCheck(i)
        \/ ConcLinkBegin(i)
        \/ ConcLinkEnd(i)
        \/ ConcRun(i)

ConcSpec == ConcInit /\ [][ConcNext]_vars

\* C24: for every interleaving of two requests handled in parallel, each
\* request gets the result it would get if it ran alone; neither the
\* check-then-compile of the engine nor the temporary input files let one
\* request observe a state written by the other.
C24_NoInterference ==
    \A i \in Procs :
        /\ cpc[i] = "returned" => cret[i] = Outcome(cinput[i][1], cinput[i][2])
        /\ cfile[i] \in {NoFile, cinput[i]}

\* A request's input file holds its own input.
OwnInputFile ==
    \A i \in Procs : cfile[i] \in {NoFile, cinput[i]}

====
